---- MODULE Spec2Model ----
(***************************************************************************)
(* Model of segmed/train/train_unet.py: the train_unet function.           *)
(*                                                                         *)
(* A directory is its sorted file listing 1..N.  A batch is the sequence   *)
(* of file indices it was loaded from.  The Keras objects that train_unet  *)
(* creates and drives are modelled by what the calls do:                   *)
(*   - ImageDataGenerator(validation_split=v) rejects v = 1.0;             *)
(*   - flow_from_directory(subset=...) serves the files [0, int(v*N)) as   *)
(*     "validation" and [int(v*N), N) as "training";                       *)
(*   - a DirectoryIterator is an endless iterator which reseeds the global *)
(*     numpy generator with seed + total_batches_seen before every batch   *)
(*     and reshuffles its index array at the start of every pass;          *)
(*   - fit_generator takes steps_per_epoch batches, then validation_steps  *)
(*     validation batches, then runs the callbacks' on_epoch_end;          *)
(*   - ModelCheckpoint(save_best_only=True, mode="max") saves when the     *)
(*     monitored value is greater than the best seen so far.               *)
(***************************************************************************)
EXTENDS Integers, Sequences, FiniteSets, TLC

\* ----------------------------------------------------------------- bounds
MaxFiles  == 3      \* files per directory: 1..MaxFiles
MaxBatch  == 2      \* batch_size: 1..MaxBatch
MaxEpochs == 2      \* epochs: 1..MaxEpochs
MaxSteps  == 2      \* steps_per_epoch: 1..MaxSteps
MaxSeed   == 1      \* seed: 0..MaxSeed
MaxMetric == 2      \* monitored value of an epoch: 0..MaxMetric
MaxRuns   == 2      \* calls of train_unet with the same arguments

\* val_split as a fraction <<numerator, denominator>>: 0.0, 0.2, 0.5, 1.0
ValSplits == { <<0, 1>>, <<1, 5>>, <<1, 2>>, <<1, 1>> }

\* np.random.seed accepts seeds below 2^32 only; the width is scaled down so
\* that a whole fit_generator call stays below it.
SeedLimit == MaxSeed + (MaxEpochs + 1) * (MaxSteps + 1) + 3

\* states numpy's global generator can start in (seeded from the system)
Entropy == 0..1

None == << >>               \* no batch, no index array
NoIter == [ n |-> -1 ]      \* iterator not created yet
NoFile == [ run |-> 0, epoch |-> 0 ]    \* model_file not written yet
NegInf == -1        \* ModelCheckpoint.best for mode="max" starts at -inf

VARIABLES
    pc,                     \* position in train_unet
    args,                   \* the arguments of the call
    np_random,              \* state of numpy's global generator
    image_generator_train,
    mask_generator_train,
    image_generator_val,
    mask_generator_val,
    input_size,             \* batch that line 118 took for the input size
    epoch, step,            \* fit_generator: current epoch, batches done in it
    trainSeq,               \* pairs fit_generator took from train_generator
    valSeq,                 \* pairs fit_generator took from val_generator
    shown,                  \* pairs plotted by the show loop
    history,                \* monitored value of every completed epoch
    best,                   \* ModelCheckpoint.best
    model_file,             \* [run, epoch] of the model stored in model_file, or NoFile
    run,                    \* number of the current call
    refTrain, refVal        \* trainSeq and valSeq of the previous call

vars == << pc, args, np_random, image_generator_train, mask_generator_train,
           image_generator_val, mask_generator_val, input_size, epoch, step,
           trainSeq, valSeq, shown, history, best, model_file, run,
           refTrain, refVal >>

\* ------------------------------------------------------- numpy, as called
\* variant: the seed is not applied
np_random_seed_ignored(state, s) == state

\* np.random.seed(s): the generator's state becomes s
np_random_seed(state, s) == s

\* np.random.permutation(n) in generator state r: a permutation of 0..n-1
\* that depends on r
permutation(n, r) == [ i \in 1..n |-> (i - 1 + r) % n ]

\* the generator's state after it produced a permutation
np_random_advance(r) == (r + 1) % SeedLimit

\* ------------------------------------------------- ImageDataGenerator
\* int(v * N)
SplitAt(v, N) == (v[1] * N) \div v[2]

\* ImageDataGenerator(validation_split=v) raises ValueError unless
\* v is 0 or 0 < v < 1
validation_split_ok(v) == v[1] = 0 \/ (0 < v[1] /\ v[1] < v[2])

\* variant: the training subset starts at the first file
flow_from_directory_overlap(N, v, batch_size, seed, subset) ==
    LET hi == IF subset = "validation" THEN SplitAt(v, N) ELSE N - SplitAt(v, N)
    IN  [ lo |-> 0, n |-> hi, batch_size |-> batch_size, seed |-> seed,
          batch_index |-> 0, total_batches_seen |-> 0, index_array |-> None ]

\* flow_from_directory: the iterator over the subset's files.
\* lo: files before the subset; n: files in the subset.
flow_from_directory(N, v, batch_size, seed, subset) ==
    LET lo == IF subset = "validation" THEN 0 ELSE SplitAt(v, N)
        hi == IF subset = "validation" THEN SplitAt(v, N) ELSE N
    IN  [ lo |-> lo, n |-> hi - lo, batch_size |-> batch_size, seed |-> seed,
          batch_index |-> 0, total_batches_seen |-> 0, index_array |-> None ]

\* the iterator has been created
Created(it) == it.n >= 0

\* the files an iterator serves
Files(it) == (it.lo + 1) .. (it.lo + it.n)

\* next(it): one step of Iterator._flow_index and the loading of the batch.
\* Result: the iterator after, the generator state after, the batch and its
\* position in the iterator's sequence; ok = FALSE when np.random.seed raises.
IterNext(it, rng) ==
    LET s    == it.seed + it.total_batches_seen
        r1   == np_random_seed(rng, s)
        arr  == IF it.batch_index = 0 THEN permutation(it.n, r1)
                ELSE it.index_array
        r2   == IF it.batch_index = 0 THEN np_random_advance(r1) ELSE r1
        cur  == IF it.n = 0 THEN 0
                ELSE (it.batch_index * it.batch_size) % it.n
        last == IF cur + it.batch_size < it.n THEN cur + it.batch_size
                ELSE it.n
        bi   == IF it.n > cur + it.batch_size THEN it.batch_index + 1 ELSE 0
    IN  IF s >= SeedLimit
        THEN [ ok |-> FALSE, it |-> it, rng |-> rng, batch |-> None, pos |-> 0 ]
        ELSE [ ok |-> TRUE,
               it |-> [ it EXCEPT !.batch_index = bi,
                                  !.total_batches_seen = @ + 1,
                                  !.index_array = arr ],
               rng |-> r2,
               batch |-> [ j \in 1..(last - cur) |-> it.lo + 1 + arr[cur + j] ],
               pos |-> it.total_batches_seen + 1 ]

\* next(zip(a, b)): next(a), then next(b), as one pair
zip_next(a, b, rng) ==
    LET x == IterNext(a, rng)
        y == IterNext(b, x.rng)
    IN  IF ~x.ok THEN [ ok |-> FALSE, a |-> a, b |-> b, rng |-> rng, pair |-> None ]
        ELSE IF ~y.ok
        THEN [ ok |-> FALSE, a |-> x.it, b |-> b, rng |-> x.rng, pair |-> None ]
        ELSE [ ok |-> TRUE, a |-> x.it, b |-> y.it, rng |-> y.rng,
               pair |-> [ img |-> x.batch, mask |-> y.batch,
                          imgPos |-> x.pos, maskPos |-> y.pos ] ]

\* ------------------------------------------------------------ train_unet
Args ==
    [ nImg : 1..MaxFiles, nMask : 1..MaxFiles, batch_size : 1..MaxBatch,
      epochs : 1..MaxEpochs, steps_per_epoch : 1..MaxSteps,
      val_split : ValSplits, seed : 0..MaxSeed, show : BOOLEAN ]

\* variant: validation_steps left at one batch
validation_steps_one(a) == 1

\* validation_steps=steps_per_epoch
validation_steps(a) == a.steps_per_epoch

Init ==
    /\ pc = "start"
    /\ args \in Args
    /\ np_random \in Entropy
    /\ image_generator_train = NoIter
    /\ mask_generator_train = NoIter
    /\ image_generator_val = NoIter
    /\ mask_generator_val = NoIter
    /\ input_size = None
    /\ epoch = 0
    /\ step = 0
    /\ trainSeq = << >>
    /\ valSeq = << >>
    /\ shown = 0
    /\ history = << >>
    /\ best = NegInf
    /\ model_file = NoFile
    /\ run = 1
    /\ refTrain = << >>
    /\ refVal = << >>

\* lines 63-70
new_image_generator_train(a) ==
    flow_from_directory(a.nImg, a.val_split, a.batch_size, a.seed, "training")

\* lines 71-78
new_mask_generator_train(a) ==
    flow_from_directory(a.nMask, a.val_split, a.batch_size, a.seed, "training")

\* lines 87-94
new_image_generator_val(a) ==
    flow_from_directory(a.nImg, a.val_split, a.batch_size, a.seed, "validation")

\* variant: the mask iterator of the validation pair reads the training subset
new_mask_generator_val_training(a) ==
    flow_from_directory(a.nMask, a.val_split, a.batch_size, a.seed, "training")

\* lines 95-102
new_mask_generator_val(a) ==
    flow_from_directory(a.nMask, a.val_split, a.batch_size, a.seed, "validation")

\* lines 52-104: the two ImageDataGenerators and the four iterators
Construct ==
    /\ pc = "start"
    /\ IF validation_split_ok(args.val_split)
       THEN /\ image_generator_train' = new_image_generator_train(args)
            /\ mask_generator_train' = new_mask_generator_train(args)
            /\ image_generator_val' = new_image_generator_val(args)
            /\ mask_generator_val' = new_mask_generator_val(args)
            /\ pc' = "built"
       ELSE /\ pc' = "error"
            /\ UNCHANGED << image_generator_train, mask_generator_train,
                            image_generator_val, mask_generator_val >>
    /\ UNCHANGED << args, np_random, input_size, epoch, step, trainSeq, valSeq,
                    shown, history, best, model_file, run, refTrain, refVal >>

\* line 107: if show
CheckShow ==
    /\ pc = "built"
    /\ pc' = IF args.show THEN "show" ELSE "input_size"
    /\ UNCHANGED << args, np_random, image_generator_train,
                    mask_generator_train, image_generator_val,
                    mask_generator_val, input_size, epoch, step, trainSeq,
                    valSeq, shown, history, best, model_file, run, refTrain,
                    refVal >>

\* lines 110-115: one pass of "for i, j in train_generator"; the loop ends
\* only when the generator stops or raises
ShowPlot ==
    /\ pc = "show"
    /\ LET z == zip_next(image_generator_train, mask_generator_train, np_random)
       IN  /\ image_generator_train' = z.a
           /\ mask_generator_train' = z.b
           /\ np_random' = z.rng
           /\ pc' = IF z.ok THEN "show" ELSE "error"
           /\ shown' = IF z.ok THEN shown + 1 ELSE shown
    /\ UNCHANGED << args, image_generator_val, mask_generator_val, input_size,
                    epoch, step, trainSeq, valSeq, history, best, model_file,
                    run, refTrain, refVal >>

\* lines 118-130: next(image_generator_train) for the input size, the
\* ModelCheckpoint, compile; then fit_generator starts its first epoch
InputSize ==
    /\ pc = "input_size"
    /\ LET x == IterNext(image_generator_train, np_random)
       IN  /\ image_generator_train' = x.it
           /\ np_random' = x.rng
           /\ input_size' = x.batch
           /\ pc' = IF x.ok THEN "train" ELSE "error"
    /\ epoch' = 1
    /\ step' = 0
    /\ best' = NegInf
    /\ UNCHANGED << args, mask_generator_train, image_generator_val,
                    mask_generator_val, trainSeq, valSeq, shown, history,
                    model_file, run, refTrain, refVal >>

\* fit_generator: one training batch from train_generator
TrainStep ==
    /\ pc = "train"
    /\ LET z == zip_next(image_generator_train, mask_generator_train, np_random)
       IN  /\ image_generator_train' = z.a
           /\ mask_generator_train' = z.b
           /\ np_random' = z.rng
           /\ IF z.ok
              THEN /\ trainSeq' = Append(trainSeq, z.pair)
                   /\ IF step + 1 = args.steps_per_epoch
                      THEN pc' = "validate" /\ step' = 0
                      ELSE pc' = "train" /\ step' = step + 1
              ELSE pc' = "error" /\ UNCHANGED << trainSeq, step >>
    /\ UNCHANGED << args, image_generator_val, mask_generator_val, input_size,
                    epoch, valSeq, shown, history, best, model_file, run,
                    refTrain, refVal >>

\* fit_generator: one validation batch from val_generator
ValStep ==
    /\ pc = "validate"
    /\ LET z == zip_next(image_generator_val, mask_generator_val, np_random)
       IN  /\ image_generator_val' = z.a
           /\ mask_generator_val' = z.b
           /\ np_random' = z.rng
           /\ IF z.ok
              THEN /\ valSeq' = Append(valSeq, z.pair)
                   /\ IF step + 1 = validation_steps(args)
                      THEN pc' = "epoch_end" /\ step' = 0
                      ELSE pc' = "validate" /\ step' = step + 1
              ELSE pc' = "error" /\ UNCHANGED << valSeq, step >>
    /\ UNCHANGED << args, image_generator_train, mask_generator_train,
                    input_size, epoch, trainSeq, shown, history, best,
                    model_file, run, refTrain, refVal >>

\* variant: np.greater_equal
monitor_op_ge(current, b) == current >= b

\* ModelCheckpoint.on_epoch_end with save_best_only: monitor_op is np.greater
monitor_op(current, b) == current > b

\* fit_generator: the end of an epoch with monitored value m; the callback
\* saves the model when monitor_op holds; the last epoch returns the history
EpochEnd ==
    /\ pc = "epoch_end"
    /\ \E m \in 0..MaxMetric :
          /\ history' = Append(history, m)
          /\ IF monitor_op(m, best)
             THEN best' = m /\ model_file' = [ run |-> run, epoch |-> epoch ]
             ELSE UNCHANGED << best, model_file >>
    /\ IF epoch < args.epochs
       THEN pc' = "train" /\ epoch' = epoch + 1
       ELSE pc' = "done" /\ UNCHANGED epoch
    /\ UNCHANGED << args, np_random, image_generator_train,
                    mask_generator_train, image_generator_val,
                    mask_generator_val, input_size, step, trainSeq, valSeq,
                    shown, run, refTrain, refVal >>

\* train_unet is called again with the same arguments, in a new process;
\* the file written by the previous call is still there
Again ==
    /\ pc = "done"
    /\ run < MaxRuns
    /\ run' = run + 1
    /\ refTrain' = trainSeq
    /\ refVal' = valSeq
    /\ pc' = "start"
    /\ np_random' \in Entropy
    /\ image_generator_train' = NoIter
    /\ mask_generator_train' = NoIter
    /\ image_generator_val' = NoIter
    /\ mask_generator_val' = NoIter
    /\ input_size' = None
    /\ epoch' = 0
    /\ step' = 0
    /\ trainSeq' = << >>
    /\ valSeq' = << >>
    /\ history' = << >>
    /\ best' = NegInf
    /\ UNCHANGED << args, shown, model_file >>

Next ==
    \/ Construct
    \/ CheckShow
    \/ ShowPlot
    \/ InputSize
    \/ TrainStep
    \/ ValStep
    \/ EpochEnd
    \/ Again

Spec == Init /\ [][Next]_vars

\* the interpreter always runs the next statement
FairSpec == Spec /\ WF_vars(Next)

TypeOK ==
    /\ pc \in { "start", "built", "show", "input_size", "train", "validate",
                "epoch_end", "done", "error" }
    /\ args \in Args
    /\ epoch \in 0..MaxEpochs
    /\ run \in 1..MaxRuns
\* ------------------------------------------------------------ properties
SameDirs == args.nImg = args.nMask

\* a pair holds the batches of the same position and of the same files
Matched(p) == p.imgPos = p.maskPos /\ p.img = p.mask

Max(seq) == CHOOSE m \in { seq[i] : i \in 1..Len(seq) } :
                \A i \in 1..Len(seq) : seq[i] <= m

\* C1: with directories of equal file count, every pair that fit_generator
\* takes from train_generator holds the image batch and the mask batch of the
\* same position of the two training sequences, with the same file indices.
C1_TrainPairsMatched ==
    SameDirs => \A k \in 1..Len(trainSeq) : Matched(trainSeq[k])

\* after a completed epoch, model_file holds the model of the first epoch
\* whose monitored value is the maximum over the completed epochs
BestStored ==
    Len(history) >= 1 =>
        /\ model_file.run = run
        /\ model_file.epoch \in 1..Len(history)
        /\ history[model_file.epoch] = Max(history)
        /\ best = Max(history)
        /\ \A j \in 1..(model_file.epoch - 1) :
              history[j] < history[model_file.epoch]

\* C2: after every completed epoch model_file holds the model of an epoch
\* whose monitored value is the maximum over the completed epochs (the first
\* such epoch), the checkpoint's best is that maximum, model_file is written
\* only at the end of an epoch whose value is greater than every earlier
\* one, and best never decreases during a call.
C2_BestModelSaved ==
    [][ /\ BestStored'
        /\ run' = run => best' >= best
        /\ model_file' # model_file =>
             /\ Len(history') = Len(history) + 1
             /\ model_file' = [ run |-> run, epoch |-> Len(history') ]
             /\ \A j \in 1..Len(history) :
                   history'[Len(history')] > history[j] ]_vars

C2_Witness ==
    /\ Len(history) = 2
    /\ history[1] = history[2]
    /\ model_file = [ run |-> run, epoch |-> 1 ]

\* C3: once the generators are built, train_unet reaches fit_generator and
\* returns the History, for either value of show.
C3_ReturnsHistory == (pc = "built") ~> (pc = "done")

\* with show=True no statement after the show loop is ever reached
ShowNeverTrains ==
    args.show => pc \in { "start", "built", "show", "error" }

\* the files of a directory of N files are split between the two iterators
Partition(train, val, N) ==
    /\ Files(train) \cap Files(val) = {}
    /\ Files(train) \cup Files(val) = 1..N

SplitDone ==
    /\ Created(image_generator_train) /\ Created(image_generator_val)
    /\ Created(mask_generator_train) /\ Created(mask_generator_val)
    /\ Partition(image_generator_train, image_generator_val, args.nImg)
    /\ Partition(mask_generator_train, mask_generator_val, args.nMask)
    /\ SameDirs =>
         \A i \in 1..args.nImg :
            i \in Files(image_generator_train) <=> i \in Files(mask_generator_train)

IsPrefix(s, t) == Len(s) <= Len(t) /\ \A k \in 1..Len(s) : s[k] = t[k]

StepCount ==
    LET S == args.steps_per_epoch
        e == Len(history)
    IN  /\ pc = "train" =>
              /\ epoch = e + 1 /\ step < S
              /\ Len(trainSeq) = e * S + step
              /\ Len(valSeq) = e * S
        /\ pc = "validate" =>
              /\ epoch = e + 1 /\ step < S
              /\ Len(trainSeq) = (e + 1) * S
              /\ Len(valSeq) = e * S + step
        /\ pc = "epoch_end" =>
              /\ Len(trainSeq) = (e + 1) * S
              /\ Len(valSeq) = (e + 1) * S
        /\ pc = "done" =>
              /\ e = args.epochs
              /\ Len(trainSeq) = e * S
              /\ Len(valSeq) = e * S

====
